---- MODULE Spec2Model ----
(***************************************************************************)
(* Timeline editing engine of the video editor: the element store and its  *)
(* cut operation (cutTimelineElement and its per-type adjustment           *)
(* strategies) and the file ghost-drag state (startFileGhostDragUtil,      *)
(* updateFileGhostUtil, finishFileGhostDragUtil), all of                   *)
(* src/src/mobx/store-modules/cutTimeline.js; and the timeline zoom: the   *)
(* useTimelineZoom hook (src/src/hooks/useTimelineZoom.js) over the zoom   *)
(* manager, and the resize gesture of the timeline scrollbar.              *)
(*                                                                         *)
(* JavaScript values are encoded as follows.  An object is a function on   *)
(* the set of its own keys, so that a missing key is a key outside DOMAIN. *)
(* A value that may be null is a sequence of length 0 (null) or 1.         *)
(* Times of the timeline (timeFrame, word timings, cutTime) are integers   *)
(* (milliseconds).  Source offsets are produced by a division, so they are *)
(* exact rationals [n, d] in lowest terms; IEEE rounding is not modelled.  *)
(***************************************************************************)
EXTENDS Integers, Sequences, FiniteSets, TLC

(***************************************************************************)
(* Bounds of the model.                                                    *)
(***************************************************************************)
MaxTime == 3
MaxWords == 2
MaxSource == 2
MaxRow == 1
MaxPosition == 1
MaxGhostDuration == 2
MaxCommits == 2
MaxStore == 2
MaxStep == 14

(***************************************************************************)
(* Numbers produced by a division: exact rationals in lowest terms.        *)
(***************************************************************************)
Abs(x) == IF x < 0 THEN 0 - x ELSE x

RECURSIVE GCD(_, _)
GCD(a, b) == IF b = 0 THEN a ELSE GCD(b, a % b)

Rat(n, d) ==
    LET g == GCD(Abs(n), Abs(d))
        s == IF d < 0 THEN 0 - 1 ELSE 1
    IN  [n |-> (s * n) \div g, d |-> (s * d) \div g]

I(x) == [n |-> x, d |-> 1]
RAdd(a, b) == Rat(a.n * b.d + b.n * a.d, a.d * b.d)
RSub(a, b) == Rat(a.n * b.d - b.n * a.d, a.d * b.d)
RMul(a, b) == Rat(a.n * b.n, a.d * b.d)
RDiv(a, b) == Rat(a.n * b.d, a.d * b.n)
Truthy(a) == a.n # 0
RLe(a, b) == a.n * b.d <= b.n * a.d
RMin(a, b) == IF RLe(a, b) THEN a ELSE b
RMax(a, b) == IF RLe(a, b) THEN b ELSE a

(***************************************************************************)
(* Object and array primitives.                                            *)
(***************************************************************************)
\* {...p, ...q}: the keys of both, q's values winning.
Spread(p, q) ==
    [k \in DOMAIN p \cup DOMAIN q |-> IF k \in DOMAIN q THEN q[k] ELSE p[k]]

\* p.key || dflt for a numeric key: a missing key and the number 0 are falsy.
OrElse(p, key, dflt) ==
    IF key \in DOMAIN p /\ Truthy(p[key]) THEN p[key] ELSE dflt

\* JSON.parse(JSON.stringify(x)): on objects made of finite numbers, strings,
\* arrays and plain objects (the only values elements hold here) the round
\* trip rebuilds the same keys with the same values.
JSONClone(x) == [k \in DOMAIN x |-> x[k]]

\* Array.prototype.filter with the predicate given as a set of kept indices.
RECURSIVE FilterIdx(_, _, _)
FilterIdx(s, keep, i) ==
    IF i > Len(s) THEN <<>>
    ELSE (IF i \in keep THEN <<s[i]>> ELSE <<>>) \o FilterIdx(s, keep, i + 1)

\* Array.prototype.findIndex(el => el.id === id): 0-based, -1 when absent.
FindIndex(els, id) ==
    IF \E i \in 1..Len(els) : els[i].id = id
    THEN (CHOOSE i \in 1..Len(els) :
              /\ els[i].id = id
              /\ \A j \in 1..(i - 1) : els[j].id # id) - 1
    ELSE 0 - 1

\* Array.prototype.splice(start, 0, a, b) with a 0-based start, clamped as
\* the language does (negative counts from the end, beyond the end appends).
Splice2(arr, start, a, b) ==
    LET n == Len(arr)
        at == IF start < 0 THEN (IF n + start < 0 THEN 0 ELSE n + start)
              ELSE IF start > n THEN n ELSE start
    IN  SubSeq(arr, 1, at) \o <<a, b>> \o SubSeq(arr, at + 1, n)

(***************************************************************************)
(* Per-type adjustment strategies of the cut.  The source mutates the two  *)
(* clips in place; here each strategy returns the pair of adjusted clips.  *)
(***************************************************************************)
Clips(firstClip, secondClip) == [first |-> firstClip, second |-> secondClip]

HasProperties(el) == "properties" \in DOMAIN el

HasWords(el) == HasProperties(el) /\ "words" \in DOMAIN el.properties

WithProperties(clip, q) ==
    Spread(clip, [properties |-> Spread(clip.properties, q)])

\* faulty variant: the source offset advances by the cut position, without
\* the proportion of the source duration
adjustMediaElementNoScaling(firstClip, secondClip, originalElement, cutPosition, elementDuration) ==
    IF originalElement.type \in {"image", "imageUrl"}
    THEN Clips(firstClip, secondClip)
    ELSE IF HasProperties(originalElement)
    THEN LET originalSourceTime ==
                 OrElse(originalElement.properties, "sourceStartTime", I(0))
             sourceDuration ==
                 OrElse(originalElement.properties, "sourceDuration",
                        I(elementDuration))
             sourceTimeAtCut == RAdd(originalSourceTime, I(cutPosition))
         IN  Clips(WithProperties(firstClip,
                       [sourceStartTime |-> originalSourceTime,
                        sourceDuration |->
                            RSub(sourceTimeAtCut, originalSourceTime)]),
                   WithProperties(secondClip,
                       [sourceStartTime |-> sourceTimeAtCut,
                        sourceDuration |->
                            RSub(sourceDuration,
                                 RSub(sourceTimeAtCut, originalSourceTime))]))
    ELSE Clips(firstClip, secondClip)

\* faulty variant: stills are split like video
adjustMediaElementSplitsStills(firstClip, secondClip, originalElement, cutPosition, elementDuration) ==
    IF HasProperties(originalElement)
    THEN LET originalSourceTime ==
                 OrElse(originalElement.properties, "sourceStartTime", I(0))
             sourceDuration ==
                 OrElse(originalElement.properties, "sourceDuration",
                        I(elementDuration))
             sourceTimeAtCut ==
                 RAdd(originalSourceTime,
                      RMul(RDiv(I(cutPosition), I(elementDuration)),
                           sourceDuration))
         IN  Clips(WithProperties(firstClip,
                       [sourceStartTime |-> originalSourceTime,
                        sourceDuration |->
                            RSub(sourceTimeAtCut, originalSourceTime)]),
                   WithProperties(secondClip,
                       [sourceStartTime |-> sourceTimeAtCut,
                        sourceDuration |->
                            RSub(sourceDuration,
                                 RSub(sourceTimeAtCut, originalSourceTime))]))
    ELSE Clips(firstClip, secondClip)

adjustMediaElementForCut(firstClip, secondClip, originalElement, cutPosition, elementDuration) ==
    IF originalElement.type \in {"image", "imageUrl"}
    THEN Clips(firstClip, secondClip)
    ELSE IF HasProperties(originalElement)
    THEN LET originalSourceTime ==
                 OrElse(originalElement.properties, "sourceStartTime", I(0))
             sourceDuration ==
                 OrElse(originalElement.properties, "sourceDuration",
                        I(elementDuration))
             sourceTimeAtCut ==
                 RAdd(originalSourceTime,
                      RMul(RDiv(I(cutPosition), I(elementDuration)),
                           sourceDuration))
         IN  Clips(WithProperties(firstClip,
                       [sourceStartTime |-> originalSourceTime,
                        sourceDuration |->
                            RSub(sourceTimeAtCut, originalSourceTime)]),
                   WithProperties(secondClip,
                       [sourceStartTime |-> sourceTimeAtCut,
                        sourceDuration |->
                            RSub(sourceDuration,
                                 RSub(sourceTimeAtCut, originalSourceTime))]))
    ELSE Clips(firstClip, secondClip)

\* faulty variant: the offset is scaled by the source duration, as for video
adjustAudioElementScaled(firstClip, secondClip, originalElement, cutPosition, elementDuration) ==
    IF HasProperties(originalElement)
    THEN LET originalSourceTime ==
                 OrElse(originalElement.properties, "sourceStartTime", I(0))
             sourceDuration ==
                 OrElse(originalElement.properties, "sourceDuration",
                        I(elementDuration))
         IN  Clips(WithProperties(firstClip,
                       [sourceStartTime |-> originalSourceTime]),
                   WithProperties(secondClip,
                       [sourceStartTime |->
                            RAdd(originalSourceTime,
                                 RMul(RDiv(I(cutPosition), I(elementDuration)),
                                      sourceDuration))]))
    ELSE Clips(firstClip, secondClip)

adjustAudioElementForCut(firstClip, secondClip, originalElement, cutPosition, elementDuration) ==
    IF HasProperties(originalElement)
    THEN LET originalSourceTime ==
                 OrElse(originalElement.properties, "sourceStartTime", I(0))
         IN  Clips(WithProperties(firstClip,
                       [sourceStartTime |-> originalSourceTime]),
                   WithProperties(secondClip,
                       [sourceStartTime |->
                            RAdd(originalSourceTime, I(cutPosition))]))
    ELSE Clips(firstClip, secondClip)

\* faulty variant: a word that ends at the cut time is dropped (< for <=)
FirstWordsStrict(words, cutTimeAbsolute) ==
    FilterIdx(words, {i \in 1..Len(words) : words[i].end < cutTimeAbsolute}, 1)

\* words.filter(word => word.end <= cutTimeAbsolute)
FirstWords(words, cutTimeAbsolute) ==
    FilterIdx(words, {i \in 1..Len(words) : words[i].end <= cutTimeAbsolute}, 1)

\* words.filter(word => word.start >= cutTimeAbsolute).map(shift by cutPosition)
SecondWords(words, cutTimeAbsolute, cutPosition) ==
    LET kept == FilterIdx(words,
                    {i \in 1..Len(words) : words[i].start >= cutTimeAbsolute}, 1)
    IN  [i \in 1..Len(kept) |->
            Spread(kept[i], [start |-> kept[i].start - cutPosition,
                             end |-> kept[i].end - cutPosition])]

adjustTextElementForCut(firstClip, secondClip, originalElement, cutPosition, elementDuration) ==
    IF HasWords(originalElement)
    THEN LET words == originalElement.properties.words
             elementStart == originalElement.timeFrame.start
             cutTimeAbsolute == elementStart + cutPosition
         IN  Clips(WithProperties(firstClip,
                       [words |-> FirstWords(words, cutTimeAbsolute)]),
                   WithProperties(secondClip,
                       [words |-> SecondWords(words, cutTimeAbsolute,
                                              cutPosition)]))
    ELSE Clips(firstClip, secondClip)

adjustElementPropertiesForCut(firstClip, secondClip, originalElement, cutTime, elementType) ==
    LET elementDuration ==
            originalElement.timeFrame.end - originalElement.timeFrame.start
        cutPosition == cutTime - originalElement.timeFrame.start
    IN  CASE elementType \in {"video", "imageUrl", "image"} ->
                 adjustMediaElementForCut(firstClip, secondClip,
                     originalElement, cutPosition, elementDuration)
          [] elementType = "audio" ->
                 adjustAudioElementForCut(firstClip, secondClip,
                     originalElement, cutPosition, elementDuration)
          [] elementType = "text" ->
                 adjustTextElementForCut(firstClip, secondClip,
                     originalElement, cutPosition, elementDuration)
          [] OTHER -> Clips(firstClip, secondClip)

(***************************************************************************)
(* State.  The store (editorElements, selectedElement, maxTime, the ghost  *)
(* state), the id generator, the position inside a running cut, and the    *)
(* record of the last call of each operation (its arguments, what it saw   *)
(* on entry, what it logged and returned), which is what the properties    *)
(* read.                                                                   *)
(***************************************************************************)
VARIABLES editorElements, selectedElement, maxTime, nextId, pc, call,
          ghostState, ghostOp,
          timelineManager, hook, currentScale, zoomOp,
          url, video, resolved, timers, promise, metadataOp

storeVars == <<editorElements, selectedElement, maxTime, nextId, pc, call>>
ghostVars == <<ghostState, ghostOp>>
zoomVars == <<timelineManager, hook, currentScale, zoomOp>>
metadataVars == <<url, video, resolved, timers, promise, metadataOp>>
vars == <<editorElements, selectedElement, maxTime, nextId, pc, call,
          ghostState, ghostOp, timelineManager, hook, currentScale, zoomOp,
          url, video, resolved, timers, promise, metadataOp>>

Element(id, type, timeFrame, row) ==
    [id |-> id, type |-> type, timeFrame |-> timeFrame, row |-> row]

Null == <<>>
Some(x) == <<x>>

(***************************************************************************)
(* cutTimelineElement, in the steps an observer of the store can tell      *)
(* apart: the function is not a MobX action, so the assignment to          *)
(* store.editorElements, store.setSelectedElement(null) and                *)
(* store.refreshElements() are three separate store mutations.  Everything *)
(* before the assignment works on locals only.                             *)
(***************************************************************************)
\* const element = store.editorElements.find(el => el.id === elementId)
Find(els, elementId) ==
    LET i == FindIndex(els, elementId)
    IN  IF i < 0 THEN Null ELSE Some(els[i + 1])

\* faulty variant: the start boundary is let through (< for <=)
CutTimeInsideOrAtStart(timeFrame, cutTime) ==
    ~(cutTime < timeFrame.start \/ cutTime >= timeFrame.end)

\* the negation of the range check that rejects the cut
CutTimeInside(timeFrame, cutTime) ==
    ~(cutTime <= timeFrame.start \/ cutTime >= timeFrame.end)

\* faulty variant: the clone's timeFrame is not overridden
FirstClipKeepsFrame(element, cutTime) ==
    Spread(JSONClone(element), [id |-> element.id])

FirstClip(element, cutTime) ==
    Spread(JSONClone(element),
           [id |-> element.id,
            timeFrame |-> [start |-> element.timeFrame.start, end |-> cutTime]])

\* faulty variant: the clone keeps the original id
SecondClipKeepsId(element, cutTime, newId) ==
    Spread(JSONClone(element),
           [timeFrame |-> [start |-> cutTime, end |-> element.timeFrame.end]])

\* faulty variant: the second clip starts where the original starts
SecondClipWholeRange(element, cutTime, newId) ==
    Spread(JSONClone(element),
           [id |-> newId,
            timeFrame |-> [start |-> element.timeFrame.start,
                           end |-> element.timeFrame.end]])

SecondClip(element, cutTime, newId) ==
    Spread(JSONClone(element),
           [id |-> newId,
            timeFrame |-> [start |-> cutTime, end |-> element.timeFrame.end]])

\* the id generator: a value it has not returned before
uuidv4 == nextId

\* faulty variant: only the first clip is spliced in
UpdatedElementsFirstOnly(els, elementId, firstClip, secondClip) ==
    LET updatedElements ==
            FilterIdx(els, {i \in 1..Len(els) : els[i].id # elementId}, 1)
        at == FindIndex(els, elementId)
    IN  SubSeq(updatedElements, 1, at) \o <<firstClip>>
        \o SubSeq(updatedElements, at + 1, Len(updatedElements))

\* faulty variant: the clips are pushed at the end instead of spliced in
UpdatedElementsAppended(els, elementId, firstClip, secondClip) ==
    FilterIdx(els, {i \in 1..Len(els) : els[i].id # elementId}, 1)
    \o <<firstClip, secondClip>>

\* map/filter the original out, then splice the two clips in at its index
UpdatedElements(els, elementId, firstClip, secondClip) ==
    LET updatedElements ==
            FilterIdx(els, {i \in 1..Len(els) : els[i].id # elementId}, 1)
        elementIndex == FindIndex(els, elementId)
    IN  Splice2(updatedElements, elementIndex, firstClip, secondClip)

\* store.refreshElements(): the derived bound, the largest end time
MaxEnd(els) ==
    IF Len(els) = 0 THEN 0
    ELSE CHOOSE m \in {els[i].timeFrame.end : i \in 1..Len(els)} :
             \A i \in 1..Len(els) : els[i].timeFrame.end <= m

NoCall ==
    [op |-> "none", elementId |-> 0, cutTime |-> 0, outcome |-> "none",
     warned |-> <<>>, returned |-> Null, element |-> Null,
     firstClip |-> Null, secondClip |-> Null, before |-> <<>>,
     selectedBefore |-> Null, maxTimeBefore |-> 0, effects |-> <<>>]

\* faulty variant: the early return hands the reason to the caller
RejectedWithReason(elementId, cutTime, why, message) ==
    [NoCall EXCEPT !.op = "cut", !.elementId = elementId, !.cutTime = cutTime,
                   !.outcome = why, !.warned = <<message>>,
                   !.returned = Some(why),
                   !.before = editorElements,
                   !.selectedBefore = selectedElement,
                   !.maxTimeBefore = maxTime]

Rejected(elementId, cutTime, why, message) ==
    [NoCall EXCEPT !.op = "cut", !.elementId = elementId, !.cutTime = cutTime,
                   !.outcome = why, !.warned = <<message>>,
                   !.returned = Some("undefined"),
                   !.before = editorElements,
                   !.selectedBefore = selectedElement,
                   !.maxTimeBefore = maxTime]

\* faulty variant: the bounds are refreshed before the selection is cleared
NextStepRefreshFirst(step) ==
    CASE step = "editorElements" -> "refreshElements"
      [] step = "refreshElements" -> "setSelectedElement"
      [] OTHER -> "idle"

\* the statement that follows each store mutation of the cut
NextStep(step) ==
    CASE step = "editorElements" -> "setSelectedElement"
      [] step = "setSelectedElement" -> "refreshElements"
      [] OTHER -> "idle"

cutTimelineElement(elementId, cutTime) ==
    /\ pc = "idle"
    /\ LET found == Find(editorElements, elementId)
       IN  IF found = Null
           THEN /\ call' = Rejected(elementId, cutTime, "notFound",
                                    "not found")
                /\ UNCHANGED <<editorElements, selectedElement, maxTime,
                               nextId, pc>>
           ELSE LET element == found[1]
                IN  IF ~CutTimeInside(element.timeFrame, cutTime)
                    THEN /\ call' = [Rejected(elementId, cutTime,
                                              "outOfRange",
                                              "outside timeframe")
                                        EXCEPT !.element = Some(element)]
                         /\ UNCHANGED <<editorElements, selectedElement,
                                        maxTime, nextId, pc>>
                    ELSE LET clips == adjustElementPropertiesForCut(
                                          FirstClip(element, cutTime),
                                          SecondClip(element, cutTime, uuidv4),
                                          element, cutTime, element.type)
                         IN  /\ editorElements' =
                                    UpdatedElements(editorElements, elementId,
                                                    clips.first, clips.second)
                             /\ nextId' = nextId + 1
                             /\ pc' = NextStep("editorElements")
                             /\ call' =
                                    [NoCall EXCEPT
                                       !.op = "cut",
                                       !.elementId = elementId,
                                       !.cutTime = cutTime,
                                       !.outcome = "accepted",
                                       !.element = Some(element),
                                       !.firstClip = Some(clips.first),
                                       !.secondClip = Some(clips.second),
                                       !.before = editorElements,
                                       !.selectedBefore = selectedElement,
                                       !.maxTimeBefore = maxTime,
                                       !.effects = <<"editorElements">>]
                             /\ UNCHANGED <<selectedElement, maxTime>>
    /\ UNCHANGED <<ghostVars, zoomVars, metadataVars>>

\* store.setSelectedElement(null)
cutSetSelectedElement ==
    /\ pc = "setSelectedElement"
    /\ selectedElement' = Null
    /\ pc' = NextStep("setSelectedElement")
    /\ call' = [call EXCEPT !.effects = @ \o <<"setSelectedElement">>]
    /\ UNCHANGED <<editorElements, maxTime, nextId>>
    /\ UNCHANGED <<ghostVars, zoomVars, metadataVars>>

\* store.refreshElements(), then the function returns (nothing)
cutRefreshElements ==
    /\ pc = "refreshElements"
    /\ maxTime' = MaxEnd(editorElements)
    /\ pc' = NextStep("refreshElements")
    /\ call' = [call EXCEPT !.effects = @ \o <<"refreshElements">>,
                            !.returned = Some("undefined")]
    /\ UNCHANGED <<editorElements, selectedElement, nextId>>
    /\ UNCHANGED <<ghostVars, zoomVars, metadataVars>>

(***************************************************************************)
(* Object identities.  The values above say what the clips hold; these say *)
(* which objects hold it.  A nested object is named <<maker, kind, index>>:*)
(* maker "element" is the element found in the store, "firstClone" and     *)
(* "secondClone" are the two results of JSON.parse, "firstClip" and        *)
(* "secondClip" the object literals the cut and its strategies write,      *)
(* "firstWords" and "secondWords" the arrays filter and map return; index  *)
(* is the position of a word record in the words array that first held it, *)
(* 0 for anything else.                                                    *)
(***************************************************************************)
\* the nested objects reachable from an element all of whose objects were
\* made by maker
ObjectsOf(el, maker) ==
    {<<maker, "timeFrame", 0>>}
    \cup (IF HasProperties(el) THEN {<<maker, "properties", 0>>} ELSE {})
    \cup (IF HasWords(el)
          THEN {<<maker, "words", 0>>}
               \cup {<<maker, "word", i>> :
                         i \in 1..Len(el.properties.words)}
          ELSE {})

\* the strategy of the element's type assigns clip.properties = {...}
PropertiesReassigned(el) ==
    \/ el.type \in {"video", "audio"} /\ HasProperties(el)
    \/ el.type = "text" /\ HasWords(el)

\* a clip whose strategy leaves it alone: the clone with a new timeFrame
UntouchedClipObjects(el, clone, clip) ==
    (ObjectsOf(el, clone) \ {<<clone, "timeFrame", 0>>})
    \cup {<<clip, "timeFrame", 0>>}

\* a clip whose properties object was rebuilt by spreading the clone's
RebuiltClipObjects(el, clone, clip) ==
    (UntouchedClipObjects(el, clone, clip) \ {<<clone, "properties", 0>>})
    \cup {<<clip, "properties", 0>>}

\* firstClip: words.filter(...) is a new array of the records of
\* originalElement.properties.words themselves
FirstClipObjects(el, cutTime) ==
    IF ~PropertiesReassigned(el)
    THEN UntouchedClipObjects(el, "firstClone", "firstClip")
    ELSE IF el.type # "text"
    THEN RebuiltClipObjects(el, "firstClone", "firstClip")
    ELSE {<<"firstClip", "timeFrame", 0>>, <<"firstClip", "properties", 0>>,
          <<"firstWords", "words", 0>>}
         \cup {<<"element", "word", i>> :
                   i \in {k \in 1..Len(el.properties.words) :
                              el.properties.words[k].end <= cutTime}}

\* secondClip: words.filter(...).map(word => ({...word, ...})) is a new
\* array of new records
SecondClipObjects(el, cutTime) ==
    IF ~PropertiesReassigned(el)
    THEN UntouchedClipObjects(el, "secondClone", "secondClip")
    ELSE IF el.type # "text"
    THEN RebuiltClipObjects(el, "secondClone", "secondClip")
    ELSE {<<"secondClip", "timeFrame", 0>>, <<"secondClip", "properties", 0>>,
          <<"secondWords", "words", 0>>}
         \cup {<<"secondWords", "word", i>> :
                   i \in {k \in 1..Len(el.properties.words) :
                              el.properties.words[k].start >= cutTime}}

(***************************************************************************)
(* The file ghost-drag state.                                              *)
(***************************************************************************)
\* the values finishFileGhostDragUtil resets the ghost state to
GhostEmpty ==
    [isFileDragging |-> FALSE, fileGhostElement |-> Null, fileData |-> Null,
     ghostMarkerPosition |-> Null, dragOverRowIndex |-> Null,
     isIncompatibleRow |-> FALSE]

\* commits counts the invocations of a commit callback since the last
\* startDrag; storeBefore is the element list the call found
NoGhostOp ==
    [op |-> "none", args |-> [none |-> TRUE], before |-> GhostEmpty,
     storeBefore |-> <<>>, invoked |-> <<>>, threw |-> FALSE, commits |-> 0]

GhostCall(name, args) ==
    [NoGhostOp EXCEPT !.op = name, !.args = args, !.before = ghostState,
                      !.storeBefore = editorElements,
                      !.commits = ghostOp.commits]

\* faulty variant: a drag in progress is left alone
StartedGhostUnlessDragging(g, file, elementType, defaultDuration) ==
    IF g.isFileDragging
    THEN g
    ELSE [g EXCEPT !.isFileDragging = TRUE,
                   !.fileData = Some(file),
                   !.fileGhostElement =
                       Some([type |-> elementType,
                             duration |-> defaultDuration,
                             timeFrame |-> [start |-> 0,
                                            end |-> defaultDuration]])]

StartedGhost(g, file, elementType, defaultDuration) ==
    [g EXCEPT !.isFileDragging = TRUE,
              !.fileData = Some(file),
              !.fileGhostElement =
                  Some([type |-> elementType, duration |-> defaultDuration,
                        timeFrame |-> [start |-> 0, end |-> defaultDuration]])]

startFileGhostDragUtil(file, elementType, defaultDuration) ==
    /\ pc = "idle"
    /\ ghostState' = StartedGhost(ghostState, file, elementType,
                                  defaultDuration)
    /\ ghostOp' = [GhostCall("startDrag",
                              [file |-> file, elementType |-> elementType,
                               defaultDuration |-> defaultDuration])
                      EXCEPT !.commits = 0]
    /\ UNCHANGED <<storeVars, zoomVars, metadataVars>>

\* faulty variant: the pointer fields are written in every state
UpdatedGhostNoGuard(g, newPosition, rowIndex, isIncompatible) ==
    [g EXCEPT !.ghostMarkerPosition = Some(newPosition),
              !.dragOverRowIndex = Some(rowIndex),
              !.isIncompatibleRow = isIncompatible,
              !.fileGhostElement =
                  IF g.fileGhostElement = Null THEN Null
                  ELSE Some(Spread(g.fileGhostElement[1],
                            [row |-> rowIndex,
                             timeFrame |->
                                 [start |-> newPosition,
                                  end |-> newPosition
                                          + g.fileGhostElement[1].duration]]))]

\* faulty variant: the candidate is moved without its end
UpdatedGhostKeepsEnd(g, newPosition, rowIndex, isIncompatible) ==
    IF ~g.isFileDragging \/ g.fileGhostElement = Null
    THEN g
    ELSE [g EXCEPT !.ghostMarkerPosition = Some(newPosition),
                   !.dragOverRowIndex = Some(rowIndex),
                   !.isIncompatibleRow = isIncompatible,
                   !.fileGhostElement =
                       Some(Spread(g.fileGhostElement[1],
                            [row |-> rowIndex,
                             timeFrame |->
                                 [start |-> newPosition,
                                  end |-> g.fileGhostElement[1]
                                              .timeFrame.end]]))]

UpdatedGhost(g, newPosition, rowIndex, isIncompatible) ==
    IF ~g.isFileDragging \/ g.fileGhostElement = Null
    THEN g
    ELSE [g EXCEPT !.ghostMarkerPosition = Some(newPosition),
                   !.dragOverRowIndex = Some(rowIndex),
                   !.isIncompatibleRow = isIncompatible,
                   !.fileGhostElement =
                       Some(Spread(g.fileGhostElement[1],
                            [row |-> rowIndex,
                             timeFrame |->
                                 [start |-> newPosition,
                                  end |-> newPosition
                                          + g.fileGhostElement[1].duration]]))]

updateFileGhostUtil(newPosition, rowIndex, isIncompatible) ==
    /\ pc = "idle"
    /\ ghostState' = UpdatedGhost(ghostState, newPosition, rowIndex,
                                  isIncompatible)
    /\ ghostOp' = GhostCall("updatePosition",
                            [newPosition |-> newPosition,
                             rowIndex |-> rowIndex,
                             isIncompatible |-> isIncompatible])
    /\ UNCHANGED <<storeVars, zoomVars, metadataVars>>

(***************************************************************************)
(* finishFileGhostDragUtil.  The callback is whatever the caller passes:   *)
(*   "absent"       no callback (undefined or null)                        *)
(*   "notFunction"  a truthy value that is not a function                  *)
(*   "returns"      a function that returns and touches nothing            *)
(*   "inserts"      a function that adds the dropped element to the list   *)
(*   "throws"       a function that throws                                 *)
(*   "reenters"     a function that, the first time it runs, calls        *)
(*                  finishFileGhostDragUtil again with the same arguments  *)
(***************************************************************************)
Callbacks ==
    {"absent", "notFunction", "returns", "inserts", "throws", "reenters"}

\* faulty variant: the test is `if (callback)` alone
IsCallableIfTruthy(callback) == callback # "absent"

\* callback && typeof callback === 'function'
IsCallable(callback) == callback \notin {"absent", "notFunction"}

\* calling it raises: its own throw, or the TypeError of calling a non-function
Throws(callback) == callback \in {"throws", "notFunction"}

\* faulty variant: the pointer position survives the reset
ResetGhostKeepsMarker(g) ==
    [g EXCEPT !.isFileDragging = FALSE, !.fileGhostElement = Null,
              !.fileData = Null, !.dragOverRowIndex = Null,
              !.isIncompatibleRow = FALSE]

\* the reset at the end of finishFileGhostDragUtil
ResetGhost(g) ==
    [g EXCEPT !.isFileDragging = FALSE, !.fileGhostElement = Null,
              !.fileData = Null, !.ghostMarkerPosition = Null,
              !.dragOverRowIndex = Null, !.isIncompatibleRow = FALSE]

\* the callback invocations of one call, in order: the call's own, and the
\* one made by the call a re-entering callback issues while the dragging
\* flag is still set
Invocations(g, finalPosition, rowIndex, callback) ==
    IF ~g.isFileDragging \/ ~IsCallable(callback) THEN <<>>
    ELSE IF callback = "reenters"
    THEN <<<<finalPosition, rowIndex>>, <<finalPosition, rowIndex>>>>
    ELSE <<<<finalPosition, rowIndex>>>>

\* faulty variant: the reset runs in a finally block
FinishedGhostAlwaysReset(g, callback) ==
    IF ~g.isFileDragging THEN g ELSE ResetGhost(g)

\* the ghost state the call leaves: an exception from the callback leaves the
\* function before the reset
FinishedGhost(g, callback) ==
    IF ~g.isFileDragging THEN g
    ELSE IF IsCallable(callback) /\ Throws(callback) THEN g
    ELSE ResetGhost(g)

\* the element the caller's callback commits (the caller builds it; it is
\* placed on a row of its own)
Committed(g, id, finalPosition, rowIndex) ==
    Element(id, g.fileGhostElement[1].type, [start |-> 0, end |-> 1], id)

\* faulty variant: the drop itself adds the candidate to the list
FinishStoreInsertsCandidate(els, g, id, finalPosition, rowIndex, callback) ==
    IF g.isFileDragging
    THEN Append(els, Committed(g, id, finalPosition, rowIndex))
    ELSE els

\* the element list the call leaves: changed by the callback alone
FinishStore(els, g, id, finalPosition, rowIndex, callback) ==
    IF g.isFileDragging /\ IsCallable(callback) /\ callback = "inserts"
    THEN Append(els, Committed(g, id, finalPosition, rowIndex))
    ELSE els

finishFileGhostDragUtil(finalPosition, rowIndex, callback) ==
    /\ pc = "idle"
    /\ LET c == GhostCall("finishDrag",
                         [finalPosition |-> finalPosition,
                          rowIndex |-> rowIndex, callback |-> callback])
           invoked == Invocations(ghostState, finalPosition, rowIndex,
                                  callback)
           els == FinishStore(editorElements, ghostState, nextId,
                              finalPosition, rowIndex, callback)
       IN  /\ ghostOp.commits + Len(invoked) <= MaxCommits
           /\ Len(els) <= MaxStore
           /\ ghostState' = FinishedGhost(ghostState, callback)
           /\ ghostOp' =
                  [c EXCEPT !.invoked = invoked,
                            !.commits = @ + Len(invoked),
                            !.threw = /\ ghostState.isFileDragging
                                      /\ IsCallable(callback)
                                      /\ Throws(callback)]
           /\ editorElements' = els
           /\ nextId' = IF els = editorElements THEN nextId ELSE nextId + 1
           /\ maxTime' = MaxEnd(els)
    /\ UNCHANGED <<selectedElement, pc, call>>
    /\ UNCHANGED <<zoomVars, metadataVars>>

(***************************************************************************)
(* The timeline zoom.  The zoom manager (TimelineManager) is modelled from *)
(* its documented contract: timelineManager.zoomVal is its zoom value,     *)
(* every mutation clamps to [MinZoom, MaxZoom], and a mutation that is     *)
(* asked to notify and changes the clamped value emits one                 *)
(* ZoomChangeUpdate {oldValue, newValue} to each listener, synchronously.  *)
(* The hook is useTimelineZoom: hook is null before the component mounts   *)
(* and then holds the hook's zoomValue state (the value last passed to its *)
(* setter), the zoomAncor ref and whether an onZoomChange option was       *)
(* given.  currentScale is the scale the scrollbar hands to                *)
(* setCurrentScale.  zoomOp records the last call: its arguments, the      *)
(* manager's value on entry, the events the manager emitted and the        *)
(* payloads onZoomChange received.                                         *)
(***************************************************************************)
MinZoom == I(1)
MaxZoom == Rat(59, 2)

\* 28.5, the width of the scale range
ZoomSpan == Rat(57, 2)

\* the narrowest handle a resize leaves, in pixels
MinHandleWidth == 20

ClampZoom(x) == RMax(MinZoom, RMin(MaxZoom, x))

\* timelineManager.zoomIn(step), zoomOut(step), setZoomValue(value)
ZoomedIn(v, step) == ClampZoom(RAdd(v, step))
ZoomedOut(v, step) == ClampZoom(RSub(v, step))

\* the events one mutation emits
Emitted(old, new, notify) ==
    IF notify /\ new # old
    THEN <<[oldValue |-> old, newValue |-> new]>>
    ELSE <<>>

NoZoomOp ==
    [op |-> "none", args |-> [none |-> TRUE], oldValue |-> MinZoom,
     hookBefore |-> Null, emitted |-> <<>>, delivered |-> <<>>]

\* step = 1 when the argument is undefined
DefaultStep(step) == IF step = Null THEN I(1) ELSE step[1]

\* faulty variant: the state keeps the value of the last render
handleZoomUpdateKeepsValue(h, data) == [h EXCEPT !.zoomAncor = Null]

\* the listener: stores the new value and clears the anchor
handleZoomUpdate(h, data) ==
    [h EXCEPT !.zoomValue = data.newValue, !.zoomAncor = Null]

\* what the listener passes to onZoomChange: {...data, anchor}
Payload(h, data) == Spread(data, [anchor |-> h.zoomAncor])

\* the hook after the listener has run for the events of one call
Handled(h, events) ==
    IF events = <<>> THEN h ELSE handleZoomUpdate(h, events[1])

Delivered(h, events) ==
    IF events = <<>> \/ ~h.onZoomChange THEN <<>>
    ELSE <<Payload(h, events[1])>>

\* zoomAncor.current = anchor
Anchored(h, anchor) == [h EXCEPT !.zoomAncor = anchor]

\* one call of the hook that takes the manager's value to newValue
ZoomCall(name, args, h, newValue) ==
    LET events == Emitted(timelineManager.zoomVal, newValue, TRUE)
    IN  /\ pc = "idle"
        /\ timelineManager' = [timelineManager EXCEPT !.zoomVal = newValue]
        /\ hook' = Some(Handled(h, events))
        /\ zoomOp' = [op |-> name, args |-> args,
                      oldValue |-> timelineManager.zoomVal,
                      hookBefore |-> hook, emitted |-> events,
                      delivered |-> Delivered(h, events)]
        /\ UNCHANGED <<currentScale, storeVars, ghostVars, metadataVars>>

\* useState(initialZoom || timelineManager.viewData.zoomVal)
MountedZoomValue(initialZoom, zoomVal) ==
    IF initialZoom # Null /\ Truthy(initialZoom[1])
    THEN initialZoom[1]
    ELSE zoomVal

\* if (initialZoom !== undefined) timelineManager.setZoomValue(initialZoom, false)
MountedManagerValue(initialZoom, zoomVal) ==
    IF initialZoom # Null THEN ClampZoom(initialZoom[1]) ELSE zoomVal

\* first render and its effects: the state is initialised, the manager is
\* set without notification, the listener is registered
mountHook(initialZoom, onZoomChange) ==
    /\ pc = "idle"
    /\ hook = Null
    /\ hook' = Some([zoomValue |->
                         MountedZoomValue(initialZoom,
                                          timelineManager.zoomVal),
                     zoomAncor |-> Null, onZoomChange |-> onZoomChange])
    /\ timelineManager' =
           [timelineManager EXCEPT
                !.zoomVal = MountedManagerValue(initialZoom, @)]
    /\ zoomOp' = [NoZoomOp EXCEPT
                      !.op = "mount",
                      !.args = [initialZoom |-> initialZoom,
                                onZoomChange |-> onZoomChange],
                      !.oldValue = timelineManager.zoomVal,
                      !.emitted =
                          Emitted(timelineManager.zoomVal,
                                  MountedManagerValue(
                                      initialZoom, timelineManager.zoomVal),
                                  FALSE)]
    /\ UNCHANGED <<currentScale, storeVars, ghostVars, metadataVars>>

zoomIn(step, anchor) ==
    /\ hook # Null
    /\ ZoomCall("zoomIn", [step |-> step, anchor |-> anchor],
                Anchored(hook[1], anchor),
                ZoomedIn(timelineManager.zoomVal, DefaultStep(step)))

\* faulty variant: zoomOut passes no step on
HookZoomedOutByOne(v, step) == ZoomedOut(v, I(1))

\* the value zoomOut(step) of the hook asks the manager for
HookZoomedOut(v, step) == ZoomedOut(v, DefaultStep(step))

zoomOut(step, anchor) ==
    /\ hook # Null
    /\ ZoomCall("zoomOut", [step |-> step, anchor |-> anchor],
                Anchored(hook[1], anchor),
                HookZoomedOut(timelineManager.zoomVal, step))

setZoom(value, anchor) ==
    /\ hook # Null
    /\ ZoomCall("setZoom", [value |-> value, anchor |-> anchor],
                Anchored(hook[1], anchor), ClampZoom(value))

resetZoom ==
    /\ hook # Null
    /\ ZoomCall("resetZoom", [none |-> TRUE], hook[1],
                timelineManager.defaultZoom)

\* faulty variant: the scale is not limited
NewScaleUnclamped(initialHandleWidth, delta, width) ==
    LET w == initialHandleWidth + delta
        newWidth == IF w < MinHandleWidth THEN MinHandleWidth ELSE w
    IN  IF width = 0 THEN MinZoom
        ELSE RAdd(I(1), RMul(ZoomSpan, RSub(I(1), Rat(newWidth, width))))

\* the scale a resize of the scrollbar handle yields.  A scrollbar of width
\* 0 makes the ratio +Infinity, and Math.max(1, -Infinity) is 1.
NewScale(initialHandleWidth, delta, width) ==
    LET w == initialHandleWidth + delta
        newWidth == IF w < MinHandleWidth THEN MinHandleWidth ELSE w
    IN  IF width = 0 THEN MinZoom
        ELSE RMax(MinZoom,
                  RMin(MaxZoom,
                       RAdd(I(1), RMul(ZoomSpan,
                                       RSub(I(1), Rat(newWidth, width))))))

\* handleMouseMove while a handle edge is dragged
resizeHandle(initialHandleWidth, delta, width) ==
    /\ pc = "idle"
    /\ currentScale' = NewScale(initialHandleWidth, delta, width)
    /\ zoomOp' = [NoZoomOp EXCEPT
                      !.op = "resize",
                      !.args = [initialHandleWidth |-> initialHandleWidth,
                                delta |-> delta, width |-> width],
                      !.oldValue = timelineManager.zoomVal,
                      !.hookBefore = hook]
    /\ UNCHANGED <<timelineManager, hook, storeVars, ghostVars,
                 metadataVars>>

(***************************************************************************)
(* Video metadata: getVideoMetadataFromUrl.  The executor of the promise   *)
(* runs in one step; afterwards the browser loads the media, dispatches    *)
(* the three events in any order and any subset, and runs the pending      *)
(* timers in any order.  The closure of the call is the record             *)
(* [video, resolved, timers, promise]; video.duration is Null for NaN and  *)
(* counts whole seconds otherwise.                                         *)
(***************************************************************************)
MaxVideoDuration == 2

\* the duration reported when none was detected
DefaultDurationMs == 10000

Urls == {"", "blob:v", "data:v", "https://v"}

\* url.startsWith('blob:')
IsBlobUrl(u) == u = "blob:v"

ReadyStates == 0..4

Durations == {Null} \cup {Some(d) : d \in 0..MaxVideoDuration}

NoTimers == [timeout |-> FALSE, recheck |-> 0, late |-> Null, remove |-> FALSE]

NoPromise == [state |-> "none", value |-> Null, resolveCalls |-> 0]

NoMetadataOp == [ran |-> {}, positiveSeen |-> FALSE]

DefaultMetadata ==
    [durationMs |-> DefaultDurationMs, hasAudio |-> FALSE, tracks |-> "absent"]

\* the result of the catch block: the defaults with empty track lists
CatchMetadata ==
    [durationMs |-> DefaultDurationMs, hasAudio |-> FALSE, tracks |-> "empty"]

Closure ==
    [video |-> video, resolved |-> resolved, timers |-> timers,
     promise |-> promise]

\* the promise's resolve function: only the first call settles it
resolve(m, value) ==
    [m EXCEPT !.promise =
        [state |-> IF m.promise.state = "pending"
                   THEN "resolved" ELSE m.promise.state,
         value |-> IF m.promise.state = "pending"
                   THEN Some(value) ELSE m.promise.value,
         resolveCalls |-> m.promise.resolveCalls + 1]]

\* once only: the listeners go, the source is emptied and reloaded, and the
\* removal from the document is scheduled
cleanup(m) ==
    IF m.resolved THEN m
    ELSE [m EXCEPT !.resolved = TRUE,
                   !.video = Some([m.video[1] EXCEPT !.listeners = {},
                                                    !.duration = Null,
                                                    !.readyState = 0]),
                   !.timers.remove = TRUE]

clearTimeout(m) == [m EXCEPT !.timers.timeout = FALSE]

\* video.duration > 0 (false for NaN)
PositiveDuration(v) == v.duration # Null /\ v.duration[1] > 0

\* the value detectAudioAndResolve resolves with; audio is whether any of the
\* browser's audio interfaces reports a track
DetectedMetadata(v, audio) ==
    LET durationSec == IF v.duration = Null THEN 0 ELSE v.duration[1]
        detectedAudio == audio \/ durationSec > 0
    IN  [durationMs |-> IF durationSec > 0
                        THEN durationSec * 1000 ELSE DefaultDurationMs,
         hasAudio |-> detectedAudio,
         tracks |-> "extracted"]

detectAudioAndResolve(m, audio) ==
    IF m.resolved THEN m
    ELSE resolve(cleanup(clearTimeout(m)),
                 DetectedMetadata(m.video[1], audio))

\* faulty variant: detects at once whatever the duration
onLoadedWithoutDurationCheck(m, u, audio) ==
    IF m.resolved THEN m
    ELSE [detectAudioAndResolve(m, audio) EXCEPT
              !.timers.late = Some(IF IsBlobUrl(u) THEN 300 ELSE 200)]

\* without a positive duration a re-check is scheduled; with one the
\* metadata is detected at once and a late re-check is scheduled
onLoaded(m, u, audio) ==
    IF m.resolved THEN m
    ELSE IF ~PositiveDuration(m.video[1])
         THEN [m EXCEPT !.timers.recheck = @ + 1]
         ELSE [detectAudioAndResolve(m, audio) EXCEPT
                   !.timers.late = Some(IF IsBlobUrl(u) THEN 300 ELSE 200)]

onCanPlayThrough(m, u, audio) ==
    IF ~m.resolved /\ m.video[1].readyState >= 2
    THEN onLoaded(m, u, audio)
    ELSE m

onError(m) ==
    IF m.resolved THEN m
    ELSE resolve(cleanup(clearTimeout(m)), DefaultMetadata)

\* the callback of the timeout timer
onTimeout(m) ==
    IF ~m.resolved THEN resolve(cleanup(m), DefaultMetadata) ELSE m

\* the callback of the re-check scheduled by onLoaded without a duration
onRecheck(m, audio) ==
    IF ~m.resolved /\ PositiveDuration(m.video[1])
    THEN detectAudioAndResolve(m, audio)
    ELSE m

\* the callback of the re-check scheduled after a detection
onLateRecheck(m, audio) ==
    IF ~m.resolved /\ m.video[1].readyState >= 2
    THEN detectAudioAndResolve(m, audio)
    ELSE m

\* a listener registered with { once: true } is removed when it is called
Dispatched(m, event) ==
    [m EXCEPT !.video = Some([m.video[1] EXCEPT !.listeners = @ \ {event}])]

Listening(event) == video # Null /\ event \in video[1].listeners

\* whether the handler, run on closure m, reads a positive duration
Yields(m, handler) ==
    /\ ~m.resolved
    /\ PositiveDuration(m.video[1])
    /\ handler \in {"canplaythrough", "lateRecheck"} =>
           m.video[1].readyState >= 2

Commit(m) ==
    /\ video' = m.video
    /\ resolved' = m.resolved
    /\ timers' = m.timers
    /\ promise' = m.promise

Ran(m, handler) ==
    metadataOp' = [ran |-> metadataOp.ran \cup {handler},
                   positiveSeen |-> metadataOp.positiveSeen
                                        \/ Yields(m, handler)]

\* the executor: no url resolves at once; otherwise the element is created,
\* the timeout set, the listeners added and the source loaded, and a throw
\* while loading resolves with the defaults
getVideoMetadataFromUrl(u, loadThrows) ==
    /\ promise.state = "none"
    /\ url' = u
    /\ LET created == [Closure EXCEPT !.promise.state = "pending"]
           loading ==
               [created EXCEPT
                    !.video = Some([duration |-> Null, readyState |-> 0,
                                    listeners |-> {"loadedmetadata",
                                                   "canplaythrough", "error"},
                                    attached |-> TRUE]),
                    !.resolved = FALSE,
                    !.timers.timeout = TRUE]
       IN  IF u = ""
           THEN Commit(resolve(created, DefaultMetadata))
           ELSE IF loadThrows
                THEN Commit(resolve(cleanup(clearTimeout(loading)),
                                    CatchMetadata))
                ELSE Commit(loading)
    /\ metadataOp' = [metadataOp EXCEPT !.ran = @ \cup {"executor"}]
    /\ UNCHANGED <<storeVars, ghostVars, zoomVars>>

\* the browser loads the media: the duration and the ready state change
mediaLoads(duration, readyState) ==
    /\ video # Null
    /\ ~resolved
    /\ <<duration, readyState>> # <<video[1].duration, video[1].readyState>>
    /\ video' = Some([video[1] EXCEPT !.duration = duration,
                                      !.readyState = readyState])
    /\ UNCHANGED <<url, resolved, timers, promise, metadataOp>>
    /\ UNCHANGED <<storeVars, ghostVars, zoomVars>>

loadedmetadata(audio) ==
    /\ Listening("loadedmetadata")
    /\ LET m == Dispatched(Closure, "loadedmetadata")
       IN  Commit(onLoaded(m, url, audio)) /\ Ran(m, "loadedmetadata")
    /\ UNCHANGED <<url, storeVars, ghostVars, zoomVars>>

canplaythrough(audio) ==
    /\ Listening("canplaythrough")
    /\ LET m == Dispatched(Closure, "canplaythrough")
       IN  Commit(onCanPlayThrough(m, url, audio))
           /\ Ran(m, "canplaythrough")
    /\ UNCHANGED <<url, storeVars, ghostVars, zoomVars>>

error ==
    /\ Listening("error")
    /\ LET m == Dispatched(Closure, "error")
       IN  Commit(onError(m)) /\ Ran(m, "error")
    /\ UNCHANGED <<url, storeVars, ghostVars, zoomVars>>

timeoutTimer ==
    /\ timers.timeout
    /\ LET m == [Closure EXCEPT !.timers.timeout = FALSE]
       IN  Commit(onTimeout(m)) /\ Ran(m, "timeout")
    /\ UNCHANGED <<url, storeVars, ghostVars, zoomVars>>

recheckTimer(audio) ==
    /\ timers.recheck > 0
    /\ LET m == [Closure EXCEPT !.timers.recheck = @ - 1]
       IN  Commit(onRecheck(m, audio)) /\ Ran(m, "recheck")
    /\ UNCHANGED <<url, storeVars, ghostVars, zoomVars>>

lateRecheckTimer(audio) ==
    /\ timers.late # Null
    /\ LET m == [Closure EXCEPT !.timers.late = Null]
       IN  Commit(onLateRecheck(m, audio)) /\ Ran(m, "lateRecheck")
    /\ UNCHANGED <<url, storeVars, ghostVars, zoomVars>>

\* the timer cleanup sets: the element leaves the document
removeTimer ==
    /\ timers.remove
    /\ timers' = [timers EXCEPT !.remove = FALSE]
    /\ video' = Some([video[1] EXCEPT !.attached = FALSE])
    /\ UNCHANGED <<url, resolved, promise, metadataOp>>
    /\ UNCHANGED <<storeVars, ghostVars, zoomVars>>

\* no call made yet
MetadataIdle ==
    /\ url = ""
    /\ video = Null
    /\ resolved = FALSE
    /\ timers = NoTimers
    /\ promise = NoPromise
    /\ metadataOp = NoMetadataOp

(***************************************************************************)
(* Initial stores.  Ids are pairwise distinct, every timeFrame has         *)
(* start < end, elements of one row do not overlap, words are ordered and  *)
(* non-overlapping, maxTime is the derived bound of the list.              *)
(***************************************************************************)

TimeFrames ==
    {[start |-> s, end |-> e] : s \in 0..1, e \in 1..MaxTime} \
        {[start |-> 1, end |-> 1]}

MediaProps ==
    {[src |-> "clip"]}
    \cup {[src |-> "clip", sourceDuration |-> I(MaxSource)]}
    \cup {[src |-> "clip", sourceStartTime |-> I(s), sourceDuration |-> I(d)] :
              s \in 0..1, d \in 0..MaxSource}

ImageProps ==
    {[src |-> "still"],
     [src |-> "still", sourceStartTime |-> I(1), sourceDuration |-> I(MaxSource)]}

Word(i, s, e) == [text |-> i, start |-> s, end |-> e]

WordSeqs ==
    UNION {
      {w \in [1..n -> {Word(i, s, e) : i \in 1..n, s \in 0..MaxTime,
                                       e \in 0..MaxTime}] :
           /\ \A i \in 1..n : w[i].text = i /\ w[i].start <= w[i].end
           /\ \A i \in 1..(n - 1) : w[i].end <= w[i + 1].start}
      : n \in 0..MaxWords}

TextProps ==
    {[fontSize |-> 12]} \cup {[fontSize |-> 12, words |-> w] : w \in WordSeqs}

PropsOf(type) ==
    CASE type \in {"video", "audio"} -> MediaProps
      [] type \in {"image", "imageUrl"} -> ImageProps
      [] type = "text" -> TextProps
      [] OTHER -> {[fill |-> "red"]}

Types == {"video", "audio", "image", "imageUrl", "text", "shape"}

\* the element the cuts are aimed at, with or without a properties object
Subjects ==
    UNION {
      {Element(1, type, tf, 0) : tf \in TimeFrames}
      \cup {Spread(Element(1, type, tf, 0), [properties |-> p]) :
                tf \in TimeFrames, p \in PropsOf(type)}
      : type \in Types}

\* another element: right after the subject on its row, or on the other row
Neighbours(e) ==
    {Spread(Element(2, "video", [start |-> e.timeFrame.end,
                                 end |-> MaxTime + 1], 0),
            [properties |-> [src |-> "clip", sourceStartTime |-> I(0),
                             sourceDuration |-> I(1)]]),
     Element(2, "image", [start |-> 0, end |-> 2], MaxRow)}

InitialStores ==
    {<<e>> : e \in Subjects}
    \cup UNION {UNION {{<<n, e>>, <<e, n>>} : n \in Neighbours(e)} :
                   e \in {x \in Subjects : x.type = "shape"}}

StoreInit ==
    /\ editorElements \in InitialStores
    /\ selectedElement \in {Null, Some(1)}
    /\ maxTime = MaxEnd(editorElements)
    /\ nextId = Len(editorElements) + 1
    /\ pc = "idle"
    /\ call = NoCall

\* the zoom before any component is mounted, with the manager at its
\* default level
ZoomIdle(defaultZoom) ==
    /\ timelineManager = [zoomVal |-> defaultZoom, defaultZoom |-> defaultZoom]
    /\ hook = Null
    /\ currentScale = MinZoom
    /\ zoomOp = NoZoomOp

Init ==
    /\ StoreInit
    /\ ghostState = GhostEmpty
    /\ ghostOp = NoGhostOp
    /\ ZoomIdle(MinZoom)
    /\ MetadataIdle

Next ==
    \/ \E elementId \in 0..(nextId - 1), cutTime \in 0..MaxTime :
           cutTimelineElement(elementId, cutTime)
    \/ cutSetSelectedElement
    \/ cutRefreshElements

Spec == Init /\ [][Next]_vars

(***************************************************************************)
(* The ghost drag on its own, over one fixed store.                        *)
(***************************************************************************)
Files == {"a.mp4", "b.png"}

\* the element type the caller derives from the dragged file
TypeOfFile(file) == IF file = "a.mp4" THEN "video" ELSE "image"

GhostInit ==
    /\ editorElements = <<Element(1, "shape", [start |-> 0, end |-> 1], 0)>>
    /\ selectedElement = Null
    /\ maxTime = 1
    /\ nextId = 2
    /\ pc = "idle"
    /\ call = NoCall
    /\ ghostState = GhostEmpty
    /\ ghostOp = NoGhostOp
    /\ ZoomIdle(MinZoom)
    /\ MetadataIdle

\* the (finalPosition, rowIndex) pairs a drop is finished at
DropPoints == {<<0, MaxRow>>, <<MaxPosition, 0>>}

GhostNext ==
    \/ \E file \in Files, defaultDuration \in 1..MaxGhostDuration :
           startFileGhostDragUtil(file, TypeOfFile(file), defaultDuration)
    \/ \E newPosition \in 0..MaxPosition, rowIndex \in 0..MaxRow,
          isIncompatible \in BOOLEAN :
           updateFileGhostUtil(newPosition, rowIndex, isIncompatible)
    \/ \E drop \in DropPoints, callback \in Callbacks :
           finishFileGhostDragUtil(drop[1], drop[2], callback)

GhostSpec == GhostInit /\ [][GhostNext]_vars

(***************************************************************************)
(* The zoom on its own, over the fixed store of the ghost drag.            *)
(***************************************************************************)
DefaultZooms == {I(1), I(5)}

InitialZooms == {Null, Some(I(0)), Some(I(3)), Some(I(100)), Some(I(0 - 5))}

Steps == {Null, Some(I(0)), Some(I(MaxStep)), Some(I(0 - 3 * MaxStep))}

Anchors == {Null, Some("t1"), Some("t2")}

ZoomValues == {I(100), I(0 - 5), I(3)}

\* width of the handle when the resize starts, pointer travel, width of the
\* scrollbar
Resizes == {<<100, 0 - 100, 200>>, <<100, 0, 200>>, <<100, 150, 200>>,
            <<100, 0, 0>>}

ZoomInit ==
    /\ editorElements = <<Element(1, "shape", [start |-> 0, end |-> 1], 0)>>
    /\ selectedElement = Null
    /\ maxTime = 1
    /\ nextId = 2
    /\ pc = "idle"
    /\ call = NoCall
    /\ ghostState = GhostEmpty
    /\ ghostOp = NoGhostOp
    /\ \E defaultZoom \in DefaultZooms : ZoomIdle(defaultZoom)
    /\ MetadataIdle

ZoomNext ==
    \/ \E initialZoom \in InitialZooms, onZoomChange \in BOOLEAN :
           mountHook(initialZoom, onZoomChange)
    \/ \E step \in Steps, anchor \in Anchors : zoomIn(step, anchor)
    \/ \E step \in Steps, anchor \in Anchors : zoomOut(step, anchor)
    \/ \E value \in ZoomValues, anchor \in Anchors : setZoom(value, anchor)
    \/ resetZoom
    \/ \E r \in Resizes : resizeHandle(r[1], r[2], r[3])

ZoomSpec == ZoomInit /\ [][ZoomNext]_vars

(***************************************************************************)
(* One call of getVideoMetadataFromUrl, over the fixed store of the ghost  *)
(* drag.  MetadataLiveSpec adds what the event loop guarantees: a timer    *)
(* that is set and not cleared runs its callback.                          *)
(***************************************************************************)
MetadataInit ==
    /\ editorElements = <<Element(1, "shape", [start |-> 0, end |-> 1], 0)>>
    /\ selectedElement = Null
    /\ maxTime = 1
    /\ nextId = 2
    /\ pc = "idle"
    /\ call = NoCall
    /\ ghostState = GhostEmpty
    /\ ghostOp = NoGhostOp
    /\ ZoomIdle(MinZoom)
    /\ MetadataIdle

MetadataNext ==
    \/ \E u \in Urls, loadThrows \in BOOLEAN :
           getVideoMetadataFromUrl(u, loadThrows)
    \/ \E duration \in Durations, readyState \in ReadyStates :
           mediaLoads(duration, readyState)
    \/ \E audio \in BOOLEAN : loadedmetadata(audio)
    \/ \E audio \in BOOLEAN : canplaythrough(audio)
    \/ error
    \/ timeoutTimer
    \/ \E audio \in BOOLEAN : recheckTimer(audio)
    \/ \E audio \in BOOLEAN : lateRecheckTimer(audio)
    \/ removeTimer

MetadataSpec == MetadataInit /\ [][MetadataNext]_vars

MetadataLiveSpec == MetadataSpec /\ WF_vars(timeoutTimer)

(***************************************************************************)
(* Properties of the cut.  They read the record of the last call: the list *)
(* and selection it found on entry (call.before, call.selectedBefore), its *)
(* arguments, and the clips it built.                                      *)
(***************************************************************************)
Ids(els) == {els[i].id : i \in 1..Len(els)}

HasId(els, id) == \E i \in 1..Len(els) : els[i].id = id

\* the element a call is aimed at, when the list holds one with that id
Target(els, id) == els[CHOOSE i \in 1..Len(els) : els[i].id = id]

StrictlyInside(el, t) == el.timeFrame.start < t /\ t < el.timeFrame.end

Occurrences(els, x) == Cardinality({i \in 1..Len(els) : els[i] = x})

CutCalled == call.op = "cut"

CutAccepted == CutCalled /\ call.outcome = "accepted"

\* C1: a cut of an element of the store at a time strictly inside its range
\* is carried out and builds a first clip {original.start, cutTime} and a
\* second clip {cutTime, original.end}: the two ranges meet at cutTime, with
\* no gap and no overlap, and cover exactly the original range.
C1_CutSplitsRange ==
    (/\ CutCalled
     /\ HasId(call.before, call.elementId)
     /\ StrictlyInside(Target(call.before, call.elementId), call.cutTime))
    => /\ call.outcome = "accepted"
       /\ LET o == Target(call.before, call.elementId)
              f == call.firstClip[1]
              g == call.secondClip[1]
          IN  /\ f.timeFrame = [start |-> o.timeFrame.start,
                                end |-> call.cutTime]
              /\ g.timeFrame = [start |-> call.cutTime,
                                end |-> o.timeFrame.end]
              /\ f.timeFrame.end = g.timeFrame.start
              /\ f.timeFrame.start < f.timeFrame.end
              /\ g.timeFrame.start < g.timeFrame.end
              /\ Occurrences(editorElements, f) = 1
              /\ Occurrences(editorElements, g) = 1

C1_Witness ==
    /\ CutAccepted
    /\ pc = "idle"
    /\ call.element[1].timeFrame.start > 0
    /\ call.cutTime + 1 < call.element[1].timeFrame.end
    /\ Len(call.before) > 1

\* C2: a cut whose elementId is not in the store, or whose cutTime is <= the
\* element's start or >= its end, leaves the element list and the selection
\* unchanged and does not call the derived-bounds refresh.
C2_RejectedCutChangesNothing ==
    (/\ CutCalled
     /\ \/ ~HasId(call.before, call.elementId)
        \/ call.cutTime <= Target(call.before, call.elementId).timeFrame.start
        \/ call.cutTime >= Target(call.before, call.elementId).timeFrame.end)
    => /\ editorElements = call.before
       /\ selectedElement = call.selectedBefore
       /\ maxTime = call.maxTimeBefore
       /\ call.effects = <<>>
       /\ call.outcome \in {"notFound", "outOfRange"}
       /\ pc = "idle"

C2_Witness ==
    /\ CutCalled
    /\ HasId(call.before, call.elementId)
    /\ call.cutTime = Target(call.before, call.elementId).timeFrame.end
    /\ call.cutTime > 0
    /\ selectedElement = Some(call.elementId)
    /\ call.outcome = "outOfRange"

\* C3: after a successful cut the first clip has the original element's id
\* and the second clip an id that no element of the store had; the ids of
\* the store stay pairwise distinct (the id generator never repeats).
C3_IdsStayDistinct ==
    /\ \A i, j \in 1..Len(editorElements) :
           editorElements[i].id = editorElements[j].id => i = j
    /\ CutAccepted =>
           /\ call.firstClip[1].id = call.element[1].id
           /\ call.firstClip[1].id = call.elementId
           /\ call.secondClip[1].id \notin Ids(call.before)
           /\ {call.firstClip[1].id, call.secondClip[1].id}
                  \subseteq Ids(editorElements)

C3_Witness ==
    /\ CutAccepted
    /\ Len(editorElements) >= 3
    /\ call.elementId > 1

\* C4: every element has start < end and no two elements of one row overlap
\* in time, in every state reached by accepted and rejected cuts; both clips
\* keep the row of the element they come from.
C4_RangesValidAndDisjoint ==
    /\ \A i \in 1..Len(editorElements) :
           editorElements[i].timeFrame.start < editorElements[i].timeFrame.end
    /\ \A i, j \in 1..Len(editorElements) :
           (i # j /\ editorElements[i].row = editorElements[j].row)
           => \/ editorElements[i].timeFrame.end
                     <= editorElements[j].timeFrame.start
              \/ editorElements[j].timeFrame.end
                     <= editorElements[i].timeFrame.start
    /\ CutAccepted =>
           /\ call.firstClip[1].row = call.element[1].row
           /\ call.secondClip[1].row = call.element[1].row

C4_Witness ==
    /\ CutAccepted
    /\ Len(editorElements) >= 3
    /\ \A i, j \in 1..Len(editorElements) :
           editorElements[i].row = editorElements[j].row

\* C5: the element list is replaced in one step: in every state it is either
\* the list the cut found (rejected cut) or a list holding both clips once
\* each; never one clip without the other, never neither clip and not the
\* original.
C5_CutIsAtomic ==
    CutCalled =>
        \/ /\ call.outcome # "accepted"
           /\ editorElements = call.before
        \/ /\ call.outcome = "accepted"
           /\ Occurrences(call.before, call.element[1]) = 1
           /\ Occurrences(editorElements, call.firstClip[1]) = 1
           /\ Occurrences(editorElements, call.secondClip[1]) = 1
           /\ Occurrences(editorElements, call.element[1]) = 0

C5_Witness ==
    /\ CutAccepted
    /\ pc = "setSelectedElement"
    /\ Len(call.before) = 2

\* C6: a successful cut of the element at index i yields the elements before
\* i, the first clip, the second clip, the elements after i: the others are
\* unchanged and in order, and the list is longer by exactly one.
C6_ClipsReplaceOriginalInPlace ==
    CutAccepted =>
        LET n == Len(call.before)
            i == CHOOSE k \in 1..n : call.before[k].id = call.elementId
        IN  /\ Len(editorElements) = n + 1
            /\ editorElements =
                   SubSeq(call.before, 1, i - 1)
                   \o <<call.firstClip[1], call.secondClip[1]>>
                   \o SubSeq(call.before, i + 1, n)

C6_Witness ==
    /\ CutAccepted
    /\ Len(call.before) = 3
    /\ call.before[2].id = call.elementId

(***************************************************************************)
(* Properties of the per-type adjustment.                                  *)
(***************************************************************************)
VideoCutWithProperties ==
    /\ CutAccepted
    /\ call.element[1].type = "video"
    /\ HasProperties(call.element[1])

\* the worked example: source 0/10000 over {0, 10000}, cut at 4000
ExampleVideo ==
    Spread(Element(1, "video", [start |-> 0, end |-> 10000], 0),
           [properties |-> [src |-> "clip", sourceStartTime |-> I(0),
                            sourceDuration |-> I(10000)]])

ExampleVideoClips ==
    adjustElementPropertiesForCut(FirstClip(ExampleVideo, 4000),
                                  SecondClip(ExampleVideo, 4000, 2),
                                  ExampleVideo, 4000, "video")

\* C7 as stated: the two clips of a video element that has properties take
\* their source span from original.sourceStartTime and
\* original.sourceDuration, so that the source durations add up to
\* original.sourceDuration and the second source span starts where the
\* first ends.
C7_SourceSplitsOriginalFields ==
    VideoCutWithProperties =>
        LET p == call.element[1].properties
            f == call.firstClip[1].properties
            g == call.secondClip[1].properties
        IN  /\ "sourceStartTime" \in DOMAIN p
            /\ "sourceDuration" \in DOMAIN p
            /\ f.sourceStartTime = p.sourceStartTime
            /\ RAdd(f.sourceDuration, g.sourceDuration) = p.sourceDuration
            /\ g.sourceStartTime = RAdd(f.sourceStartTime, f.sourceDuration)

\* C7, amended: the source span that is split is the effective one, a
\* missing or zero sourceStartTime counting as 0 and a missing or zero
\* sourceDuration as the element's duration on the timeline.  With share =
\* (cutPosition / elementDuration) * effective duration, the first clip gets
\* {effective start, share} and the second {effective start + share,
\* effective duration - share}; every other property is kept.
C7_SourceSplitsEffectiveSpan ==
    /\ VideoCutWithProperties =>
        LET o == call.element[1]
            p == o.properties
            f == call.firstClip[1].properties
            g == call.secondClip[1].properties
            elementDuration == o.timeFrame.end - o.timeFrame.start
            cutPosition == call.cutTime - o.timeFrame.start
            start0 == IF "sourceStartTime" \in DOMAIN p
                         /\ p.sourceStartTime # I(0)
                      THEN p.sourceStartTime ELSE I(0)
            duration0 == IF "sourceDuration" \in DOMAIN p
                            /\ p.sourceDuration # I(0)
                         THEN p.sourceDuration ELSE I(elementDuration)
            share == Rat(cutPosition * duration0.n,
                         elementDuration * duration0.d)
        IN  /\ f.sourceStartTime = start0
            /\ f.sourceDuration = share
            /\ g.sourceStartTime = RAdd(start0, share)
            /\ g.sourceDuration = RSub(duration0, share)
            /\ RAdd(f.sourceDuration, g.sourceDuration) = duration0
            /\ g.sourceStartTime = RAdd(f.sourceStartTime, f.sourceDuration)
            /\ DOMAIN f = DOMAIN p \cup {"sourceStartTime", "sourceDuration"}
            /\ DOMAIN g = DOMAIN f
            /\ \A k \in DOMAIN p \ {"sourceStartTime", "sourceDuration"} :
                   f[k] = p[k] /\ g[k] = p[k]
    /\ ExampleVideoClips.first.properties.sourceStartTime = I(0)
    /\ ExampleVideoClips.first.properties.sourceDuration = I(4000)
    /\ ExampleVideoClips.second.properties.sourceStartTime = I(4000)
    /\ ExampleVideoClips.second.properties.sourceDuration = I(6000)

C7_Witness ==
    /\ VideoCutWithProperties
    /\ {"sourceStartTime", "sourceDuration"}
           \subseteq DOMAIN call.element[1].properties
    /\ call.element[1].properties.sourceStartTime = I(1)
    /\ call.firstClip[1].properties.sourceDuration = Rat(2, 3)
    /\ call.secondClip[1].properties.sourceStartTime = Rat(5, 3)

TextCutWithWords ==
    /\ CutAccepted
    /\ call.element[1].type = "text"
    /\ HasWords(call.element[1])

\* a word of the original is in a clip when the clip holds a word with its
\* text and its duration
WordIn(w, words) ==
    \E k \in 1..Len(words) :
        words[k].text = w.text /\ words[k].end - words[k].start = w.end - w.start

\* C8 as stated: after the cut of a text element every word of the original,
\* zero-length words at cutTime included, is in exactly one of the two
\* clips, except a word with start < cutTime < end, which is in neither; no
\* word is in both and no duration changes.
C8_EveryWordInExactlyOneClip ==
    TextCutWithWords =>
        LET words == call.element[1].properties.words
            first == call.firstClip[1].properties.words
            second == call.secondClip[1].properties.words
        IN  /\ \A i \in 1..Len(words) :
                   LET w == words[i]
                   IN  IF w.start < call.cutTime /\ call.cutTime < w.end
                       THEN ~WordIn(w, first) /\ ~WordIn(w, second)
                       ELSE WordIn(w, first) # WordIn(w, second)
            /\ \A k \in 1..Len(first) :
                   \E i \in 1..Len(words) : WordIn(words[i], <<first[k]>>)
            /\ \A k \in 1..Len(second) :
                   \E i \in 1..Len(words) : WordIn(words[i], <<second[k]>>)

(***************************************************************************)
(* What the caller of the cut gets back.                                   *)
(***************************************************************************)
\* C9 as stated: the value returned tells the three outcomes apart.
C9_ResultNamesOutcome ==
    (CutCalled /\ pc = "idle") =>
        call.returned =
            Some(CASE call.outcome = "notFound" -> "ElementNotFound"
                   [] call.outcome = "outOfRange" -> "CutTimeOutOfRange"
                   [] OTHER -> "success")

\* C9, amended: the cut returns no value (undefined) on every path, so the
\* outcomes cannot be told apart from what it returns; an absent id and a
\* cutTime not strictly inside the element's span are each reported by one
\* console warning, and a cut that is carried out logs nothing.
C9_CutReturnsUndefined ==
    /\ (CutCalled /\ pc = "idle") =>
           /\ call.returned = Some("undefined")
           /\ call.outcome \in {"notFound", "outOfRange", "accepted"}
           /\ call.outcome = "notFound" <=>
                  ~HasId(call.before, call.elementId)
           /\ call.outcome = "accepted" <=>
                  /\ HasId(call.before, call.elementId)
                  /\ StrictlyInside(Target(call.before, call.elementId),
                                    call.cutTime)
           /\ call.warned =
                  CASE call.outcome = "notFound" -> <<"not found">>
                    [] call.outcome = "outOfRange" -> <<"outside timeframe">>
                    [] OTHER -> <<>>
    /\ pc # "idle" => call.returned = Null

C9_Witness ==
    /\ CutCalled
    /\ pc = "idle"
    /\ call.outcome = "notFound"
    /\ Len(editorElements) = 3
    /\ call.returned = Some("undefined")

(***************************************************************************)
(* Properties of the ghost drag.                                           *)
(***************************************************************************)
StartDragWhileDragging ==
    ghostOp.op = "startDrag" /\ ghostOp.before.isFileDragging

\* C10 as stated: startDrag during a drag changes no field of the ghost
\* state.
C10_StartDragWhileDraggingIsNoOp ==
    StartDragWhileDragging => ghostState = ghostOp.before

\* C10, amended: startDrag during a drag replaces the dragged file and the
\* candidate element by those of the new call (type, duration, timeFrame
\* {0, defaultDuration}, no row), keeps the dragging flag set and leaves the
\* pointer position, the target row and the incompatibility flag as they
\* were; there is one ghost state, so never more than one drag.
C10_StartDragReplacesCandidate ==
    StartDragWhileDragging =>
        /\ ghostState.isFileDragging
        /\ ghostState.fileData = Some(ghostOp.args.file)
        /\ ghostState.fileGhostElement =
               Some([type |-> ghostOp.args.elementType,
                     duration |-> ghostOp.args.defaultDuration,
                     timeFrame |->
                         [start |-> 0,
                          end |-> ghostOp.args.defaultDuration]])
        /\ ghostState.ghostMarkerPosition = ghostOp.before.ghostMarkerPosition
        /\ ghostState.dragOverRowIndex = ghostOp.before.dragOverRowIndex
        /\ ghostState.isIncompatibleRow = ghostOp.before.isIncompatibleRow

C10_Witness ==
    /\ StartDragWhileDragging
    /\ ghostOp.before.ghostMarkerPosition = Some(1)
    /\ ghostOp.before.isIncompatibleRow
    /\ ghostOp.before.fileData # ghostState.fileData
    /\ ghostOp.before.fileGhostElement[1].duration
           # ghostState.fileGhostElement[1].duration

FinishDragCalled == ghostOp.op = "finishDrag"

FinishDragWhileDragging == FinishDragCalled /\ ghostOp.before.isFileDragging

\* C11 as stated: finishDrag called while dragging always leaves the ghost
\* state idle with every candidate field cleared, whether the callback
\* returns or throws.
C11_FinishDragAlwaysLeavesIdle ==
    FinishDragWhileDragging => ghostState = GhostEmpty

\* C12 as stated: finishDrag called while dragging with a commit callback
\* invokes it exactly once, with (finalPosition, rowIndex), and resets the
\* state; since the last startDrag the callback has run at most once.
C12_CommitAtMostOncePerDrag ==
    /\ ghostOp.commits <= 1
    /\ (FinishDragWhileDragging /\ IsCallable(ghostOp.args.callback)) =>
           /\ ghostOp.invoked =
                  <<<<ghostOp.args.finalPosition, ghostOp.args.rowIndex>>>>
           /\ ghostState = GhostEmpty

\* C13: updatePosition and finishDrag called in the idle state change no
\* field of the ghost state and invoke no callback.
C13_IdleCallsAreNoOps ==
    (/\ ghostOp.op \in {"updatePosition", "finishDrag"}
     /\ ~ghostOp.before.isFileDragging) =>
        /\ ghostState = ghostOp.before
        /\ ghostOp.invoked = <<>>
        /\ ~ghostOp.threw

C13_Witness ==
    /\ ghostOp.op = "updatePosition"
    /\ ~ghostOp.before.isFileDragging
    /\ ghostOp.args.newPosition = 1
    /\ ghostOp.args.isIncompatible
    /\ Len(editorElements) > 1

\* C14: in every reachable ghost state the dragging flag is false exactly
\* when the candidate element is null, and when it is false the dragged
\* file, the pointer position and the target row are null and the
\* incompatibility flag is false.
C14_GhostStateIsWhole ==
    /\ ~ghostState.isFileDragging <=> ghostState.fileGhostElement = Null
    /\ ~ghostState.isFileDragging =>
           /\ ghostState.fileData = Null
           /\ ghostState.ghostMarkerPosition = Null
           /\ ghostState.dragOverRowIndex = Null
           /\ ~ghostState.isIncompatibleRow

C14_Witness ==
    /\ FinishDragWhileDragging
    /\ ghostOp.before.ghostMarkerPosition # Null
    /\ ghostOp.before.isIncompatibleRow
    /\ ~ghostState.isFileDragging

\* C15: startDrag and updatePosition leave the element list as they found
\* it; finishDrag leaves it as its callback left it: unchanged when no
\* callback ran or the callback does not touch the list, and with the
\* callback's element appended when the callback inserts one.
C15_GhostOpsLeaveElementList ==
    /\ ghostOp.op \in {"startDrag", "updatePosition"} =>
           editorElements = ghostOp.storeBefore
    /\ FinishDragCalled =>
           editorElements =
               IF ghostOp.invoked # <<>> /\ ghostOp.args.callback = "inserts"
               THEN Append(ghostOp.storeBefore,
                           Committed(ghostOp.before, nextId - 1,
                                     ghostOp.args.finalPosition,
                                     ghostOp.args.rowIndex))
               ELSE ghostOp.storeBefore

C15_Witness ==
    /\ FinishDragWhileDragging
    /\ ghostOp.args.callback = "returns"
    /\ ghostOp.invoked # <<>>
    /\ ghostOp.before.fileGhostElement[1].timeFrame.start = 1
    /\ editorElements = ghostOp.storeBefore

\* C16: finishDrag called while dragging with no callback, or with a value
\* that is not a function, resets the ghost state to idle with every field
\* cleared, invokes nothing and leaves the element list unchanged.
C16_CancelResetsWithoutCommit ==
    (/\ FinishDragWhileDragging
     /\ ghostOp.args.callback \in {"absent", "notFunction"}) =>
        /\ ghostState = GhostEmpty
        /\ ghostOp.invoked = <<>>
        /\ ~ghostOp.threw
        /\ editorElements = ghostOp.storeBefore

C16_Witness ==
    /\ FinishDragWhileDragging
    /\ ghostOp.args.callback = "notFunction"
    /\ ghostOp.before.dragOverRowIndex = Some(1)
    /\ ghostState = GhostEmpty

(***************************************************************************)
(* Properties of the zoom.                                                 *)
(***************************************************************************)
InZoomRange(x) == RLe(MinZoom, x) /\ RLe(x, MaxZoom)

ZoomMutation == zoomOp.op \in {"zoomIn", "zoomOut", "setZoom", "resetZoom"}

RoundTrip(first, second) ==
    /\ zoomOp.op = first
    /\ zoomOp'.op = second
    /\ zoomOp'.args.step = zoomOp.args.step
    /\ RLe(I(0), DefaultStep(zoomOp.args.step))
    /\ InZoomRange(IF first = "zoomIn"
                   THEN RAdd(zoomOp.oldValue, DefaultStep(zoomOp.args.step))
                   ELSE RSub(zoomOp.oldValue, DefaultStep(zoomOp.args.step)))

C19_AnchorDeliveredOnlyByItsCall ==
    /\ (ZoomMutation /\ zoomOp.delivered # <<>>) =>
           zoomOp.delivered[1].anchor =
               IF zoomOp.op = "resetZoom" THEN Null ELSE zoomOp.args.anchor
    /\ (ZoomMutation /\ zoomOp.emitted # <<>>) => hook[1].zoomAncor = Null

OrderedWords(words) ==
    /\ \A i \in 1..Len(words) : words[i].start <= words[i].end
    /\ \A i \in 1..(Len(words) - 1) : words[i].end <= words[i + 1].start

ShiftedWord(w, by) == [w EXCEPT !.start = @ - by, !.end = @ - by]

WordsInsideElement(el) ==
    \A i \in 1..Len(el.properties.words) :
        /\ el.timeFrame.start <= el.properties.words[i].start
        /\ el.properties.words[i].end <= el.timeFrame.end

\* C22 as stated: whatever the element's start, each word (of an element
\* whose words lie inside its time range) kept in the second clip has its
\* start and end reduced by cutTime, so it lies inside the second clip's own
\* duration.
C22_SecondWordsRebasedToClipStart ==
    (TextCutWithWords /\ WordsInsideElement(call.element[1])) =>
        LET o == call.element[1]
            after == SelectSeq(o.properties.words,
                               LAMBDA w : w.start >= call.cutTime)
            clip == call.secondClip[1]
            second == clip.properties.words
        IN  /\ Len(second) = Len(after)
            /\ \A i \in 1..Len(after) :
                   /\ second[i] = ShiftedWord(after[i], call.cutTime)
                   /\ 0 <= second[i].start
                   /\ second[i].end <= clip.timeFrame.end - clip.timeFrame.start

AudioCutWithProperties ==
    /\ CutAccepted
    /\ call.element[1].type = "audio"
    /\ HasProperties(call.element[1])

\* C23 as stated: the clips of an audio element that has sourceStartTime and
\* sourceDuration have source durations that add up to the original's, and
\* the second clip's source span starts where the first one's ends.
C23_AudioSourceSpansConcatenate ==
    (/\ AudioCutWithProperties
     /\ {"sourceStartTime", "sourceDuration"}
            \subseteq DOMAIN call.element[1].properties) =>
        LET p == call.element[1].properties
            f == call.firstClip[1].properties
            g == call.secondClip[1].properties
        IN  /\ RAdd(f.sourceDuration, g.sourceDuration) = p.sourceDuration
            /\ g.sourceStartTime = RAdd(f.sourceStartTime, f.sourceDuration)

\* C24: the first clip of an audio element that has properties gets the
\* original sourceStartTime (0 when it is missing) and the second clip gets
\* that value plus cutPosition, whatever the source duration; no other
\* property changes.
C24_AudioOffsetIsAdditive ==
    AudioCutWithProperties =>
        LET o == call.element[1]
            p == o.properties
            f == call.firstClip[1].properties
            g == call.secondClip[1].properties
            cutPosition == call.cutTime - o.timeFrame.start
            start0 == IF "sourceStartTime" \in DOMAIN p
                      THEN p.sourceStartTime ELSE I(0)
        IN  /\ f.sourceStartTime = start0
            /\ g.sourceStartTime = RAdd(start0, I(cutPosition))
            /\ \A k \in DOMAIN p \ {"sourceStartTime"} :
                   /\ k \in DOMAIN f /\ f[k] = p[k]
                   /\ k \in DOMAIN g /\ g[k] = p[k]

C24_Witness ==
    /\ AudioCutWithProperties
    /\ call.element[1].timeFrame = [start |-> 1, end |-> 3]
    /\ {"sourceStartTime", "sourceDuration"}
           \subseteq DOMAIN call.element[1].properties
    /\ call.element[1].properties.sourceStartTime = I(1)
    /\ call.element[1].properties.sourceDuration = I(1)
    /\ call.secondClip[1].properties.sourceStartTime = I(2)

ImageCut ==
    /\ CutAccepted
    /\ call.element[1].type \in {"image", "imageUrl"}

\* the clip has the fields of the original, with the original's values in
\* all of them but id and timeFrame
SameButIdAndTimeFrame(clip, o) ==
    /\ DOMAIN clip = DOMAIN o
    /\ \A k \in DOMAIN o \ {"id", "timeFrame"} : clip[k] = o[k]

\* C25: both clips of an image or imageUrl element have the properties (and
\* every other field but id and timeFrame) of the original; the clips
\* differ from each other in id and timeFrame only.
C25_ImageClipsKeepProperties ==
    ImageCut =>
        /\ SameButIdAndTimeFrame(call.firstClip[1], call.element[1])
        /\ SameButIdAndTimeFrame(call.secondClip[1], call.element[1])
        /\ call.firstClip[1].id # call.secondClip[1].id
        /\ call.firstClip[1].timeFrame # call.secondClip[1].timeFrame

C25_Witness ==
    /\ ImageCut
    /\ call.element[1].type = "imageUrl"
    /\ HasProperties(call.element[1])
    /\ "sourceDuration" \in DOMAIN call.element[1].properties
    /\ call.secondClip[1].properties = call.element[1].properties
    /\ call.secondClip[1].timeFrame = [start |-> 2, end |-> 3]

(***************************************************************************)
(* The store mutations of a successful cut, in order.                      *)
(***************************************************************************)
CutEffects == <<"editorElements", "setSelectedElement", "refreshElements">>

\* C26: a successful cut replaces the list, then clears the selection, then
\* refreshes the derived bound, each exactly once and in this order: when
\* the selection is cleared the list already holds both clips, when the
\* bound is refreshed the selection is already null, and once the cut has
\* returned nothing is selected and the bound is that of the new list.
C26_ReplaceThenClearThenRefresh ==
    CutAccepted =>
        /\ \E n \in 1..3 : call.effects = SubSeq(CutEffects, 1, n)
        /\ Occurrences(editorElements, call.firstClip[1]) = 1
        /\ Occurrences(editorElements, call.secondClip[1]) = 1
        /\ Len(call.effects) >= 2 => selectedElement = Null
        /\ Len(call.effects) < 2 => selectedElement = call.selectedBefore
        /\ Len(call.effects) < 3 => maxTime = call.maxTimeBefore
        /\ pc = "idle" =>
               /\ call.effects = CutEffects
               /\ maxTime = MaxEnd(editorElements)

C26_Witness ==
    /\ CutAccepted
    /\ pc = "idle"
    /\ call.elementId = 1
    /\ call.selectedBefore = Some(1)
    /\ selectedElement = Null
    /\ call.effects = CutEffects
    /\ Len(editorElements) = 3

\* C27 as stated: after a successful cut the first clip, the second clip and
\* the original element have no nested object in common, so that writing
\* into a nested object of one of them is not seen through another.
C27_ClipsShareNoObject ==
    CutAccepted =>
        LET original == ObjectsOf(call.element[1], "element")
            first == FirstClipObjects(call.element[1], call.cutTime)
            second == SecondClipObjects(call.element[1], call.cutTime)
        IN  /\ first \cap second = {}
            /\ first \cap original = {}
            /\ second \cap original = {}

UpdatePositionWhileDragging ==
    ghostOp.op = "updatePosition" /\ ghostOp.before.isFileDragging

\* C28: updatePosition called while dragging sets the pointer position to
\* newPosition, the target row and the candidate's row to rowIndex, the
\* incompatibility flag to isIncompatible and the candidate's timeFrame to
\* {newPosition, newPosition + duration}; the candidate's type and
\* duration, the dragged file and the dragging flag stay as they were.  In
\* every dragging state the candidate's timeFrame is as long as its
\* duration.
C28_UpdatePositionMovesCandidate ==
    /\ UpdatePositionWhileDragging =>
           LET old == ghostOp.before.fileGhostElement[1]
               new == ghostState.fileGhostElement[1]
           IN  /\ ghostState.ghostMarkerPosition =
                      Some(ghostOp.args.newPosition)
               /\ ghostState.dragOverRowIndex = Some(ghostOp.args.rowIndex)
               /\ ghostState.isIncompatibleRow = ghostOp.args.isIncompatible
               /\ DOMAIN new = DOMAIN old \cup {"row"}
               /\ new.row = ghostOp.args.rowIndex
               /\ new.timeFrame =
                      [start |-> ghostOp.args.newPosition,
                       end |-> ghostOp.args.newPosition + old.duration]
               /\ new.type = old.type
               /\ new.duration = old.duration
               /\ ghostState.fileData = ghostOp.before.fileData
               /\ ghostState.isFileDragging
    /\ ghostState.isFileDragging =>
           ghostState.fileGhostElement[1].timeFrame.end
               - ghostState.fileGhostElement[1].timeFrame.start
           = ghostState.fileGhostElement[1].duration

C28_Witness ==
    /\ UpdatePositionWhileDragging
    /\ ghostOp.args.newPosition = 1
    /\ ghostOp.args.rowIndex = 1
    /\ ghostOp.before.dragOverRowIndex = Some(0)
    /\ ghostState.fileGhostElement[1].duration = 2
    /\ ghostState.fileGhostElement[1].timeFrame = [start |-> 1, end |-> 3]

\* C29: the zoomValue reported by the hook equals the zoom manager's clamped
\* zoomValue in every state, including right after mounting with an
\* initialZoom that is out of range or falsy.
C29_HookReportsManagerZoom ==
    hook # Null => hook[1].zoomValue = timelineManager.zoomVal

PromiseSettled == promise.state \in {"resolved", "rejected"}

TimeoutRan == "timeout" \in metadataOp.ran

\* C30: the promise returned by getVideoMetadataFromUrl is settled exactly
\* once and always eventually resolved, never rejected and never left
\* pending, whatever the order and the subset of the loadedmetadata,
\* canplaythrough and error events, the re-checks and the timeout; when no
\* handler reads a positive duration it resolves with durationMs 10000 and
\* hasAudio false, and it is resolved once the timeout has run.
C30_PromiseResolvesOnce ==
    /\ [](/\ promise.state # "rejected"
          /\ promise.resolveCalls <= 1
          /\ promise.state = "resolved" <=> promise.resolveCalls = 1
          /\ TimeoutRan => promise.state = "resolved"
          /\ (promise.state = "resolved" /\ ~metadataOp.positiveSeen) =>
                 /\ promise.value[1].durationMs = 10000
                 /\ ~promise.value[1].hasAudio)
    /\ [][PromiseSettled => promise' = promise]_vars
    /\ (promise.state = "pending") ~> (promise.state = "resolved")

\* metadata arrived without a duration, the re-check found none either, and
\* the timeout resolved the promise with the defaults
C30_Witness ==
    /\ {"loadedmetadata", "canplaythrough", "recheck", "timeout"}
           \subseteq metadataOp.ran
    /\ ~metadataOp.positiveSeen
    /\ promise.state = "resolved"
    /\ promise.value = Some(DefaultMetadata)
    /\ timers.recheck = 1

====
